---- MODULE Spec2Model ----
(***************************************************************************)
(* The notebook 03-JaxParallelization.ipynb as a state machine: a kernel   *)
(* namespace (the names the code cells bind), the record of the last       *)
(* execution, and the position of a top-to-bottom run.  Arrays are         *)
(* modelled as (dtype, shape, row-major data); float values are held in    *)
(* fixed point (thousandths), so every literal of the notebook is exact.   *)
(***************************************************************************)
EXTENDS Integers, Sequences, FiniteSets, TLC

VARIABLES installed, ns, last, cursor

vars == <<installed, ns, last, cursor>>

-----------------------------------------------------------------------------
(* Bounds of the model.                                                    *)

\* largest batch size n drawn for the layer calls
MaxBatch == 3
\* largest length drawn for the one-dimensional vmap arguments
MaxLen == 3
\* the number of points jnp.linspace returns in the kernel's cell d645f5a2.
\* The library's default is LinspaceNum (50); a 50-by-50 grid in every state
\* is beyond the model checker, so the kernel's ranges are this long, and the
\* 50-point ranges are evaluated by the direct calls of SpecCalls.
NumPoints == 3

-----------------------------------------------------------------------------
(* Arrays.                                                                 *)

\* float values are stored as integers in units of 1/FScale
FScale == 1000

Arr(dt, sh, d) == [dtype |-> dt, shape |-> sh, data |-> d]

\* a name that holds no array
NoArr == Arr("none", <<>>, <<>>)

Rank(a) == Len(a.shape)

RECURSIVE Size(_)
Size(sh) == IF sh = <<>> THEN 1 ELSE Head(sh) * Size(Tail(sh))

\* jnp.array of float literals given in thousandths / of int literals
FloatArr(sh, d) == Arr("float", sh, d)
IntArr(sh, d) == Arr("int", sh, d)

\* a Python tuple of ints (a shape), as it is printed
TupleOf(sh) == Arr("tuple", <<Len(sh)>>, sh)

\* the multi-index (0-based) of the k-th element (k 0-based) in row-major order
RECURSIVE Unravel(_, _)
Unravel(k, sh) ==
  IF sh = <<>> THEN <<>>
  ELSE LET inner == Size(Tail(sh))
       IN  <<k \div inner>> \o Unravel(k % inner, Tail(sh))

\* the row-major position (0-based) of a multi-index
RECURSIVE Ravel(_, _)
Ravel(idx, sh) ==
  IF sh = <<>> THEN 0
  ELSE Head(idx) * Size(Tail(sh)) + Ravel(Tail(idx), Tail(sh))

At(a, idx) == a.data[Ravel(idx, a.shape) + 1]

\* the array of the given dtype and shape whose element at idx is F(idx)
Build(dt, sh, F(_)) ==
  Arr(dt, sh, <<>> \o [k \in 1..Size(sh) |-> F(Unravel(k - 1, sh))])

InsertAt(s, pos, v) == SubSeq(s, 1, pos) \o <<v>> \o SubSeq(s, pos + 1, Len(s))
RemoveAt(s, pos) == SubSeq(s, 1, pos) \o SubSeq(s, pos + 2, Len(s))

\* x[..., i, ...]: the slice of a at position i (0-based) of axis ax (0-based)
Take(a, ax, i) ==
  Build(a.dtype, RemoveAt(a.shape, ax), LAMBDA idx : At(a, InsertAt(idx, ax, i)))

\* jnp.stack(parts, axis=ax) of equally shaped arrays
Stack(parts, ax) ==
  LET inner == parts[1].shape
  IN  Build(parts[1].dtype, InsertAt(inner, ax, Len(parts)),
            LAMBDA idx : At(parts[idx[ax + 1] + 1], RemoveAt(idx, ax)))

\* a.T: the axes reversed
Reverse(s) == <<>> \o [k \in 1..Len(s) |-> s[Len(s) + 1 - k]]
Transpose(a) ==
  Build(a.dtype, Reverse(a.shape), LAMBDA idx : At(a, Reverse(idx)))

-----------------------------------------------------------------------------
(* Exceptions and results of calls.                                        *)

\* an exception: its Python type, and its message as a format text and the
\* values formatted into it
Exc(t, txt, a) == [type |-> t, text |-> txt, args |-> a]
NoExc == Exc("", "", <<>>)

Ok(a) == [exc |-> NoExc, val |-> a]
Raise(e) == [exc |-> e, val |-> NoArr]
Failed(r) == r.exc # NoExc

NameError(name) == Exc("NameError", "name '" \o name \o "' is not defined", <<>>)

-----------------------------------------------------------------------------
(* Element-wise arithmetic with dtype promotion and broadcasting.          *)

Promote(d1, d2) == IF d1 = "float" \/ d2 = "float" THEN "float" ELSE "int"

\* the element of a at idx, converted to dtype dt
ValAs(a, idx, dt) ==
  IF a.dtype = "int" /\ dt = "float" THEN At(a, idx) * FScale ELSE At(a, idx)

\* the product of two values of dtype dt (fixed point for floats)
MulVal(dt, x, y) ==
  IF dt = "float"
  THEN LET p == x * y IN IF p >= 0 THEN p \div FScale ELSE -((-p) \div FScale)
  ELSE x * y

Max2(x, y) == IF x >= y THEN x ELSE y

PadLeft(sh, n) == [k \in 1..(n - Len(sh)) |-> 1] \o sh

Broadcastable(s1, s2) ==
  LET n == Max2(Len(s1), Len(s2))
      p1 == PadLeft(s1, n)
      p2 == PadLeft(s2, n)
  IN  \A k \in 1..n : p1[k] = p2[k] \/ p1[k] = 1 \/ p2[k] = 1

BroadcastShape(s1, s2) ==
  LET n == Max2(Len(s1), Len(s2))
      p1 == PadLeft(s1, n)
      p2 == PadLeft(s2, n)
  IN  [k \in 1..n |-> Max2(p1[k], p2[k])]

\* the index into an array of shape sh that the broadcast index idx reads
BroadcastIdx(idx, sh) ==
  LET off == Len(idx) - Len(sh)
  IN  [k \in 1..Len(sh) |-> IF sh[k] = 1 THEN 0 ELSE idx[k + off]]

\* x + y
Add(x, y) ==
  IF ~Broadcastable(x.shape, y.shape)
  THEN Raise(Exc("TypeError", "add got incompatible shapes for broadcasting: {}, {}.",
                 <<TupleOf(x.shape), TupleOf(y.shape)>>))
  ELSE LET dt == Promote(x.dtype, y.dtype)
       IN  Ok(Build(dt, BroadcastShape(x.shape, y.shape),
                    LAMBDA idx : ValAs(x, BroadcastIdx(idx, x.shape), dt)
                                 + ValAs(y, BroadcastIdx(idx, y.shape), dt)))

\* x * y
Mul(x, y) ==
  IF ~Broadcastable(x.shape, y.shape)
  THEN Raise(Exc("TypeError", "mul got incompatible shapes for broadcasting: {}, {}.",
                 <<TupleOf(x.shape), TupleOf(y.shape)>>))
  ELSE LET dt == Promote(x.dtype, y.dtype)
       IN  Ok(Build(dt, BroadcastShape(x.shape, y.shape),
                    LAMBDA idx : MulVal(dt, ValAs(x, BroadcastIdx(idx, x.shape), dt),
                                            ValAs(y, BroadcastIdx(idx, y.shape), dt))))

RECURSIVE SumSeq(_)
SumSeq(s) == IF s = <<>> THEN 0 ELSE Head(s) + SumSeq(Tail(s))

\* T(0) + ... + T(n-1)
SumTo(n, T(_)) == SumSeq([j \in 1..n |-> T(j - 1)])

-----------------------------------------------------------------------------
(* jnp.dot, jnp.einsum('ij,bj->bi'), jnp.sin, jnp.linspace, jnp.meshgrid.  *)

\* Dot with the contraction over the last axis of both operands
Dot_last_axes(a, b) ==
  IF Rank(a) = 0 \/ Rank(b) = 0 THEN Mul(a, b)
  ELSE LET ra == Rank(a)
           rb == Rank(b)
           k  == a.shape[ra]
           dt == Promote(a.dtype, b.dtype)
       IN  IF k # b.shape[rb]
           THEN Raise(Exc("TypeError", "Incompatible shapes for dot: got {} and {}.",
                          <<TupleOf(a.shape), TupleOf(b.shape)>>))
           ELSE Ok(Build(dt, SubSeq(a.shape, 1, ra - 1) \o SubSeq(b.shape, 1, rb - 1),
                     LAMBDA idx :
                       LET ia == SubSeq(idx, 1, ra - 1)
                           ib == SubSeq(idx, ra, Len(idx))
                       IN  SumTo(k, LAMBDA j :
                             MulVal(dt, ValAs(a, ia \o <<j>>, dt),
                                        ValAs(b, ib \o <<j>>, dt)))))

\* a.dot(b): a scalar operand multiplies; otherwise the last axis of a is
\* contracted with the second-to-last axis of b (its only axis when b is 1-D)
Dot(a, b) ==
  IF Rank(a) = 0 \/ Rank(b) = 0 THEN Mul(a, b)
  ELSE LET ra == Rank(a)
           rb == Rank(b)
           cb == IF rb = 1 THEN 0 ELSE rb - 2
           k  == a.shape[ra]
           dt == Promote(a.dtype, b.dtype)
       IN  IF k # b.shape[cb + 1]
           THEN Raise(Exc("TypeError", "Incompatible shapes for dot: got {} and {}.",
                          <<TupleOf(a.shape), TupleOf(b.shape)>>))
           ELSE Ok(Build(dt, SubSeq(a.shape, 1, ra - 1) \o RemoveAt(b.shape, cb),
                     LAMBDA idx :
                       LET ia == SubSeq(idx, 1, ra - 1)
                           ib == SubSeq(idx, ra, Len(idx))
                       IN  SumTo(k, LAMBDA j :
                             MulVal(dt, ValAs(a, ia \o <<j>>, dt),
                                        ValAs(b, InsertAt(ib, cb, j), dt)))))

\* jnp.einsum('ij,bj->bi', w, x): out[b][i] = sum_j w[i][j] * x[b][j]
Einsum_ij_bj_bi(w, x) ==
  IF Rank(w) # 2 \/ Rank(x) # 2
  THEN Raise(Exc("ValueError",
                 "Einstein sum subscript does not contain the correct number of indices for operand {}.",
                 <<IntArr(<<>>, <<IF Rank(w) # 2 THEN 0 ELSE 1>>)>>))
  ELSE IF w.shape[2] # x.shape[2]
  THEN Raise(Exc("ValueError", "Size of label 'j' for operand 1 does not match previous terms.",
                 <<TupleOf(w.shape), TupleOf(x.shape)>>))
  ELSE LET dt == Promote(w.dtype, x.dtype)
       IN  Ok(Build(dt, <<x.shape[1], w.shape[1]>>,
                LAMBDA idx :
                  SumTo(w.shape[2], LAMBDA j :
                    MulVal(dt, ValAs(w, <<idx[2], j>>, dt), ValAs(x, <<idx[1], j>>, dt)))))

\* pi, pi/2 and 2*pi in thousandths
PiMilli == 3142
HalfPiMilli == 1571
TwoPiMilli == 6283

\* sin of a value in thousandths, in thousandths: range reduction to
\* [-pi/2, pi/2], then the Taylor polynomial of degree 7 in fixed point
SinPoly(r) ==
  LET r2 == (r * r) \div FScale
      r3 == (r2 * r) \div FScale
      r5 == (r3 * r2) \div FScale
      r7 == (r5 * r2) \div FScale
  IN  r - (r3 \div 6) + (r5 \div 120) - (r7 \div 5040)

SinPos(x) ==
  LET m == x % TwoPiMilli
      h == IF m >= PiMilli THEN m - PiMilli ELSE m
      r == IF h > HalfPiMilli THEN PiMilli - h ELSE h
  IN  IF m >= PiMilli THEN -SinPoly(r) ELSE SinPoly(r)

SinMilli(x) == IF x >= 0 THEN SinPos(x) ELSE -SinPos(-x)

\* jnp.sin(x): element-wise, the result is a float array
Sin(x) == Build("float", x.shape, LAMBDA idx : SinMilli(ValAs(x, idx, "float")))

\* the default number of points of jnp.linspace
LinspaceNum == 50

\* jnp.linspace(start, stop, num): num evenly spaced floats, both ends included
Linspace(start, stop, num) ==
  FloatArr(<<num>>,
           <<>> \o [k \in 1..num |->
              IF num = 1 THEN start * FScale
              ELSE start * FScale + ((k - 1) * (stop - start) * FScale) \div (num - 1)])

\* jnp.meshgrid(x, y, indexing='ij'): two arrays of shape (len(x), len(y))
\* jnp.meshgrid with the default indexing = 'xy': the first axis follows y
MeshgridXY(x, y) ==
  LET sh == <<y.shape[1], x.shape[1]>>
  IN  << Build(x.dtype, sh, LAMBDA idx : At(x, <<idx[2]>>)),
         Build(y.dtype, sh, LAMBDA idx : At(y, <<idx[1]>>)) >>

MeshgridIJ(x, y) ==
  LET sh == <<x.shape[1], y.shape[1]>>
  IN  << Build(x.dtype, sh, LAMBDA idx : At(x, <<idx[1]>>)),
         Build(y.dtype, sh, LAMBDA idx : At(y, <<idx[2]>>)) >>


-----------------------------------------------------------------------------
(* Function values: the functions the cells define, and jax.vmap of one.   *)

\* in_axes entry None: the argument has no batch axis
NoAxis == 0 - 1

Fn(k) == [kind |-> k, of |-> <<>>, in_axes |-> <<>>, out_axes |-> 0]
Unbound == Fn("unbound")

\* jax.vmap(f, in_axes=ia, out_axes=oa)
Vmap(f, ia, oa) == [kind |-> "vmap", of |-> <<f>>, in_axes |-> ia, out_axes |-> oa]

W == FloatArr(<<2, 2>>, <<200, 400, 900, 200>>)
b == FloatArr(<<2>>, <<200, 300>>)

\* dense_layer without the bias
dense_layer_no_bias(x) == Dot(W, x)

\* dense_layer that moves a leading batch axis out of the way
dense_layer_batch_aware(x) ==
  LET r == Dot(W, IF Rank(x) = 2 THEN Transpose(x) ELSE x)
  IN  IF Failed(r) THEN r ELSE Add(r.val, b)

\* def dense_layer(x): return W.dot(x) + b
dense_layer(x) ==
  LET r == Dot(W, x) IN IF Failed(r) THEN r ELSE Add(r.val, b)

\* einsum_layer with the subscripts of W exchanged ('ji,bj->bi')
einsum_layer_ji(x) ==
  LET r == Einsum_ij_bj_bi(Transpose(W), x) IN IF Failed(r) THEN r ELSE Add(r.val, b)

\* def einsum_layer(x): return jnp.einsum('ij,bj->bi',W,x) + b
einsum_layer(x) ==
  LET r == Einsum_ij_bj_bi(W, x) IN IF Failed(r) THEN r ELSE Add(r.val, b)

\* def transpose_layer(x): return x.dot(W.T) + b
transpose_layer(x) ==
  LET r == Dot(x, Transpose(W)) IN IF Failed(r) THEN r ELSE Add(r.val, b)

\* def func(x,y): return x+y
func_03fdf36a(x, y) == Add(x, y)

\* def func(x,y): return x*y
func_c4a7a0c8(x, y) == Mul(x, y)

\* def func(x,y): return jnp.sin(x)*y
func_d645f5a2(x, y) == Mul(Sin(x), y)

\* the argument of the i-th (0-based) call of the mapped function: the slice
\* along the argument's batch axis, or the argument itself when it has none
VmapArg(a, ax, i) == IF ax = NoAxis THEN a ELSE Take(a, ax, i)

\* the result of the mapped function's calls stacked along the output axis
VmapOut(parts, oa) == Stack(parts, oa)

RECURSIVE Call(_, _)
\* f(*args)
Call(f, args) ==
  CASE f.kind = "dense_layer"     -> dense_layer(args[1])
    [] f.kind = "einsum_layer"    -> einsum_layer(args[1])
    [] f.kind = "transpose_layer" -> transpose_layer(args[1])
    [] f.kind = "func_03fdf36a"   -> func_03fdf36a(args[1], args[2])
    [] f.kind = "func_c4a7a0c8"   -> func_c4a7a0c8(args[1], args[2])
    [] f.kind = "func_d645f5a2"   -> func_d645f5a2(args[1], args[2])
    [] f.kind = "vmap" ->
         LET ia == f.in_axes
             batched == {k \in 1..Len(args) : ia[k] # NoAxis}
             sizes == {args[k].shape[ia[k] + 1] : k \in batched}
             n == CHOOSE m \in sizes : TRUE
             results == <<>> \o [i \in 1..n |->
                           Call(f.of[1],
                                [k \in 1..Len(args) |-> VmapArg(args[k], ia[k], i - 1)])]
         IN  IF Len(ia) # Len(args)
             THEN Raise(Exc("ValueError", "vmap in_axes specification must be a tree prefix of the arguments", <<>>))
             ELSE IF batched = {}
             THEN Raise(Exc("ValueError", "vmap must have at least one non-None value in in_axes", <<>>))
             ELSE IF \E k \in batched : ia[k] >= Rank(args[k])
             THEN Raise(Exc("ValueError", "vmap was requested to map its argument along an axis out of bounds", <<>>))
             ELSE IF Cardinality(sizes) > 1
             THEN Raise(Exc("ValueError", "vmap got inconsistent sizes for array axes to be mapped", <<>>))
             ELSE IF Failed(results[1]) THEN results[1]
             ELSE IF f.out_axes > Rank(results[1].val)
             THEN Raise(Exc("ValueError", "vmap out_axes is out of bounds for the result", <<>>))
             ELSE Ok(VmapOut([i \in 1..n |-> results[i].val], f.out_axes))
    [] OTHER -> Raise(Exc("TypeError", "object is not callable", <<>>))


-----------------------------------------------------------------------------
(* The code cells.  A cell maps the namespace to the namespace it leaves,  *)
(* the exception it ends with (NoExc when it completes), what it printed   *)
(* and the value it displays.  A statement that raises ends the cell; the  *)
(* bindings made before it stay.  The namespace holds the names that one   *)
(* cell binds and another reads (the imports, dense_layer, inputs, func,   *)
(* x_batched, y_batched) and batched_dense; the names a cell binds and     *)
(* only that cell reads right after (out, out1, out2, einsum_layer,        *)
(* transpose_layer, x_range, y_range, grid) are local to the cell's        *)
(* definition, and their values show in what the cell prints or displays.  *)

\* a printed line: a format text and the values formatted into it
Line(txt, a) == [text |-> txt, args |-> a]

End(n, e, out, res) == [ns |-> n, exc |-> e, stdout |-> out, result |-> res]

\* the namespace of a fresh kernel: no name is bound
FreshNs ==
  [ jax |-> FALSE, jnp |-> FALSE, plt |-> FALSE,
    dense_layer |-> Unbound, batched_dense |-> Unbound, func |-> Unbound,
    inputs |-> NoArr, x_batched |-> NoArr, y_batched |-> NoArr ]

ModuleNotFound(m) == Exc("ModuleNotFoundError", "No module named '" \o m \o "'", <<>>)

inputs_b964aa1a == FloatArr(<<2>>, <<1100, 1200>>)

Cell_b964aa1a(n0, inst) ==
  IF "jax" \notin inst THEN End(n0, ModuleNotFound("jax"), <<>>, NoArr) ELSE
  LET n1 == [n0 EXCEPT !.jax = TRUE, !.jnp = TRUE] IN
  IF "matplotlib" \notin inst THEN End(n1, ModuleNotFound("matplotlib"), <<>>, NoArr) ELSE
  LET n2 == [n1 EXCEPT !.plt = TRUE, !.dense_layer = Fn("dense_layer"),
                       !.inputs = inputs_b964aa1a]
      r  == Call(n2.dense_layer, <<n2.inputs>>)
  IN  IF Failed(r) THEN End(n2, r.exc, <<>>, NoArr) ELSE
      LET out == r.val
      IN  End(n2, NoExc, <<Line("{} -> {}", <<n2.inputs, out>>)>>, NoArr)

inputs_6a837bf0 == FloatArr(<<3, 2>>, <<1100, 1200, 2100, 2200, 3100, 3200>>)

\* a handler that catches every exception (a bare except)
Caught_any(e) == TRUE

\* except TypeError as exc: the exception types the handler catches
Caught_6a837bf0(e) == e.type = "TypeError"

\* cell 6a837bf0 without its own binding of inputs: it reads the inputs
\* that another cell bound
Cell_6a837bf0_reads_inputs(n0, inst) ==
  IF ~n0.jnp THEN End(n0, NameError("jnp"), <<>>, NoArr) ELSE
  LET r == IF n0.dense_layer = Unbound THEN Raise(NameError("dense_layer"))
           ELSE IF n0.inputs = NoArr THEN Raise(NameError("inputs"))
           ELSE Call(n0.dense_layer, <<n0.inputs>>)
  IN  IF ~Failed(r) THEN End(n0, NoExc, <<>>, NoArr)
      ELSE IF r.exc.type = "TypeError"
      THEN End(n0, NoExc, <<Line(r.exc.text, r.exc.args)>>, NoArr)
      ELSE End(n0, r.exc, <<>>, NoArr)

Cell_6a837bf0(n0, inst) ==
  IF ~n0.jnp THEN End(n0, NameError("jnp"), <<>>, NoArr) ELSE
  LET n1 == [n0 EXCEPT !.inputs = inputs_6a837bf0]
      r  == IF n1.dense_layer = Unbound THEN Raise(NameError("dense_layer"))
            ELSE Call(n1.dense_layer, <<n1.inputs>>)
  IN  IF ~Failed(r) THEN End(n1, NoExc, <<>>, NoArr)
      ELSE IF Caught_6a837bf0(r.exc)
      THEN End(n1, NoExc, <<Line(r.exc.text, r.exc.args)>>, NoArr)
      ELSE End(n1, r.exc, <<>>, NoArr)

\* a cell that ends by evaluating f(args): the value is displayed
Display(n, r) == IF Failed(r) THEN End(n, r.exc, <<>>, NoArr)
                 ELSE End(n, NoExc, <<>>, r.val)

Cell_86ab5297(n0, inst) ==
  IF n0.inputs = NoArr THEN End(n0, NameError("inputs"), <<>>, NoArr) ELSE
  IF ~n0.jnp THEN End(n0, NameError("jnp"), <<>>, NoArr) ELSE
  Display(n0, Call(Fn("einsum_layer"), <<n0.inputs>>))

\* cell 0f974f37 with the result bound to the name inputs
\* (inputs = transpose_layer(inputs))
Cell_0f974f37_rebinds_inputs(n0, inst) ==
  IF n0.inputs = NoArr THEN End(n0, NameError("inputs"), <<>>, NoArr) ELSE
  IF ~n0.jnp THEN End(n0, NameError("jnp"), <<>>, NoArr) ELSE
  LET r == Call(Fn("transpose_layer"), <<n0.inputs>>)
  IN  IF Failed(r) THEN End(n0, r.exc, <<>>, NoArr)
      ELSE End([n0 EXCEPT !.inputs = r.val], NoExc, <<>>, r.val)

Cell_0f974f37(n0, inst) ==
  IF n0.inputs = NoArr THEN End(n0, NameError("inputs"), <<>>, NoArr) ELSE
  IF ~n0.jnp THEN End(n0, NameError("jnp"), <<>>, NoArr) ELSE
  Display(n0, Call(Fn("transpose_layer"), <<n0.inputs>>))

\* jax.vmap(dense_layer)
batched_dense(f) == Vmap(f, <<0>>, 0)

\* cell f9371639 with the batched function bound to the name dense_layer
\* itself (dense_layer = jax.vmap(dense_layer))
Cell_f9371639_rebinds(n0, inst) ==
  IF ~n0.jax THEN End(n0, NameError("jax"), <<>>, NoArr) ELSE
  IF n0.dense_layer = Unbound THEN End(n0, NameError("dense_layer"), <<>>, NoArr) ELSE
  LET n1 == [n0 EXCEPT !.batched_dense = batched_dense(n0.dense_layer),
                       !.dense_layer = batched_dense(n0.dense_layer)] IN
  IF n1.inputs = NoArr THEN End(n1, NameError("inputs"), <<>>, NoArr) ELSE
  Display(n1, Call(n1.batched_dense, <<n1.inputs>>))

Cell_f9371639(n0, inst) ==
  IF ~n0.jax THEN End(n0, NameError("jax"), <<>>, NoArr) ELSE
  IF n0.dense_layer = Unbound THEN End(n0, NameError("dense_layer"), <<>>, NoArr) ELSE
  LET n1 == [n0 EXCEPT !.batched_dense = batched_dense(n0.dense_layer)] IN
  IF n1.inputs = NoArr THEN End(n1, NameError("inputs"), <<>>, NoArr) ELSE
  Display(n1, Call(n1.batched_dense, <<n1.inputs>>))

\* the zip with the second argument not batched
Zip_in_axes_0_None(f) == Vmap(f, <<0, NoAxis>>, 0)

\* jax.vmap(func, in_axes = (0,0))
Zip_03fdf36a(f) == Vmap(f, <<0, 0>>, 0)

\* cell 03fdf36a with its function kept out of the kernel namespace
Cell_03fdf36a_local_func(n0, inst) ==
  IF ~n0.jnp THEN End(n0, NameError("jnp"), <<>>, NoArr) ELSE
  LET n2 == [n0 EXCEPT !.x_batched = IntArr(<<3>>, <<1, 2, 3>>),
                       !.y_batched = IntArr(<<3>>, <<4, 5, 6>>)]
  IN  Display(n2, Call(Zip_03fdf36a(Fn("func_03fdf36a")), <<n2.x_batched, n2.y_batched>>))

Cell_03fdf36a(n0, inst) ==
  LET n1 == [n0 EXCEPT !.func = Fn("func_03fdf36a")] IN
  IF ~n1.jnp THEN End(n1, NameError("jnp"), <<>>, NoArr) ELSE
  LET n2 == [n1 EXCEPT !.x_batched = IntArr(<<3>>, <<1, 2, 3>>),
                       !.y_batched = IntArr(<<3>>, <<4, 5, 6>>)]
  IN  Display(n2, Call(Zip_03fdf36a(n2.func), <<n2.x_batched, n2.y_batched>>))

\* the non-leading map with the batch axis of the result put first
NonLeading_out_axes_0(f) == Vmap(f, <<1, 0>>, 0)

\* jax.vmap(func, in_axes = (1,0), out_axes=1)
NonLeading_18c04558(f) == Vmap(f, <<1, 0>>, 1)

Cell_18c04558(n0, inst) ==
  IF ~n0.jnp THEN End(n0, NameError("jnp"), <<>>, NoArr) ELSE
  LET n1 == [n0 EXCEPT !.x_batched = IntArr(<<1, 3>>, <<1, 2, 3>>),
                       !.y_batched = IntArr(<<3, 1>>, <<4, 5, 6>>)]
  IN  IF n1.func = Unbound THEN End(n1, NameError("func"), <<>>, NoArr) ELSE
      LET r == Call(NonLeading_18c04558(n1.func), <<n1.x_batched, n1.y_batched>>)
      IN  IF Failed(r) THEN End(n1, r.exc, <<>>, NoArr) ELSE
          LET out1 == r.val
          IN  End(n1, NoExc, <<Line("{}", <<out1>>),
                               Line("{}", <<TupleOf(out1.shape)>>)>>, NoArr)

\* the map of cell 889ab85c with the batch axis of the result put second
NonLeading_out_axes_1(f) == Vmap(f, <<1, 0>>, 1)

\* jax.vmap(func, in_axes = (1,0), out_axes=0)
NonLeading_889ab85c(f) == Vmap(f, <<1, 0>>, 0)

Cell_889ab85c(n0, inst) ==
  IF ~n0.jax THEN End(n0, NameError("jax"), <<>>, NoArr) ELSE
  IF n0.func = Unbound THEN End(n0, NameError("func"), <<>>, NoArr) ELSE
  IF n0.x_batched = NoArr THEN End(n0, NameError("x_batched"), <<>>, NoArr) ELSE
  IF n0.y_batched = NoArr THEN End(n0, NameError("y_batched"), <<>>, NoArr) ELSE
  LET r == Call(NonLeading_889ab85c(n0.func), <<n0.x_batched, n0.y_batched>>)
  IN  IF Failed(r) THEN End(n0, r.exc, <<>>, NoArr) ELSE
      LET out2 == r.val
      IN  End(n0, NoExc, <<Line("{}", <<out2>>),
                           Line("{}", <<TupleOf(out2.shape)>>)>>, NoArr)

\* the broadcast map with the first argument batched too
Broadcast_in_axes_0_0(f) == Vmap(f, <<0, 0>>, 0)

\* jax.vmap(func, in_axes = (None,0))
Broadcast_c4a7a0c8(f) == Vmap(f, <<NoAxis, 0>>, 0)

Cell_c4a7a0c8(n0, inst) ==
  LET n1 == [n0 EXCEPT !.func = Fn("func_c4a7a0c8")] IN
  IF ~n1.jax THEN End(n1, NameError("jax"), <<>>, NoArr) ELSE
  IF ~n1.jnp THEN End(n1, NameError("jnp"), <<>>, NoArr) ELSE
  Display(n1, Call(Broadcast_c4a7a0c8(n1.func),
                   <<FloatArr(<<>>, <<3000>>), IntArr(<<3>>, <<3, 4, 5>>)>>))

\* plt.contourf(X, Y, Z): the filled contour plot of the points
\* (X[i][j], Y[i][j]) with the values Z[i][j]
Contourf(X, Y, Z) ==
  IF X.shape # Z.shape \/ Y.shape # Z.shape
  THEN Raise(Exc("TypeError", "Shapes of x {} and z {} do not match",
                 <<TupleOf(X.shape), TupleOf(Z.shape)>>))
  ELSE Ok(Arr("QuadContourSet", <<3>> \o Z.shape, X.data \o Y.data \o Z.data))

\* the nested map with the roles of the two arguments exchanged
Grid_axes_exchanged(f) == Vmap(Vmap(f, <<0, NoAxis>>, 0), <<NoAxis, 0>>, 0)

\* jax.vmap(jax.vmap(func, in_axes = (None,0)), in_axes = (0,None))
Grid_d645f5a2(f) == Vmap(Vmap(f, <<NoAxis, 0>>, 0), <<0, NoAxis>>, 0)

\* out, grid and the plot of cell d645f5a2 for given ranges
Plot_d645f5a2(x_range, y_range) ==
  LET r == Call(Grid_d645f5a2(Fn("func_d645f5a2")), <<x_range, y_range>>)
  IN  IF Failed(r) THEN r ELSE
      IF Rank(x_range) # 1 \/ Rank(y_range) # 1
      THEN Raise(Exc("ValueError",
                     "Arguments to jax.numpy.meshgrid must be 1D, got shapes {}",
                     <<TupleOf(x_range.shape), TupleOf(y_range.shape)>>))
      ELSE
      LET out == r.val
          grid == MeshgridIJ(x_range, y_range)
      IN  Contourf(grid[1], grid[2], out)

Cell_d645f5a2(n0, inst) ==
  IF ~n0.jnp THEN End(n0, NameError("jnp"), <<>>, NoArr) ELSE
  LET x_range == Linspace(-5, 5, NumPoints)
      y_range == Linspace(-2, 2, NumPoints)
      n1 == [n0 EXCEPT !.func = Fn("func_d645f5a2")]
      r  == Call(Grid_d645f5a2(n1.func), <<x_range, y_range>>)
  IN  IF Failed(r) THEN End(n1, r.exc, <<>>, NoArr) ELSE
      LET out == r.val
          grid == MeshgridIJ(x_range, y_range)
      IN  IF ~n1.plt THEN End(n1, NameError("plt"), <<>>, NoArr)
          ELSE Display(n1, Contourf(grid[1], grid[2], out))

\* the empty cell at the end of the notebook
Cell_67f77afd(n0, inst) == End(n0, NoExc, <<>>, NoArr)

\* the code cells in notebook order
CellOrder ==
  << "b964aa1a", "6a837bf0", "86ab5297", "0f974f37", "f9371639", "03fdf36a",
     "18c04558", "889ab85c", "c4a7a0c8", "d645f5a2", "67f77afd" >>

NCells == Len(CellOrder)

RunCell(c, n0, inst) ==
  CASE c = "b964aa1a" -> Cell_b964aa1a(n0, inst)
    [] c = "6a837bf0" -> Cell_6a837bf0(n0, inst)
    [] c = "86ab5297" -> Cell_86ab5297(n0, inst)
    [] c = "0f974f37" -> Cell_0f974f37(n0, inst)
    [] c = "f9371639" -> Cell_f9371639(n0, inst)
    [] c = "03fdf36a" -> Cell_03fdf36a(n0, inst)
    [] c = "18c04558" -> Cell_18c04558(n0, inst)
    [] c = "889ab85c" -> Cell_889ab85c(n0, inst)
    [] c = "c4a7a0c8" -> Cell_c4a7a0c8(n0, inst)
    [] c = "d645f5a2" -> Cell_d645f5a2(n0, inst)
    [] c = "67f77afd" -> Cell_67f77afd(n0, inst)

-----------------------------------------------------------------------------
(* The kernel.                                                             *)

\* the record of an execution: the cell (or call), its arguments when it is
\* a direct call, and how it ended
Record(c, a, e, out, res) ==
  [cell |-> c, args |-> a, exc |-> e, stdout |-> out, result |-> res]

NoLast == Record("", <<>>, NoExc, <<>>, NoArr)

Packages == {"jax", "matplotlib"}

Init ==
  /\ installed \in SUBSET Packages
  /\ ns = FreshNs
  /\ last = NoLast
  /\ cursor = 0

\* no top-to-bottom run is in progress
Idle == cursor = 0 \/ cursor = NCells + 1

\* the user runs the single cell c, which ends as r
Execute(c, r) ==
  /\ Idle
  /\ ns' = r.ns
  /\ last' = Record(c, <<>>, r.exc, r.stdout, r.result)
  /\ cursor' = 0
  /\ UNCHANGED installed

Run_b964aa1a == Execute("b964aa1a", Cell_b964aa1a(ns, installed))
Run_6a837bf0 == Execute("6a837bf0", Cell_6a837bf0(ns, installed))
Run_86ab5297 == Execute("86ab5297", Cell_86ab5297(ns, installed))
Run_0f974f37 == Execute("0f974f37", Cell_0f974f37(ns, installed))
Run_f9371639 == Execute("f9371639", Cell_f9371639(ns, installed))
Run_03fdf36a == Execute("03fdf36a", Cell_03fdf36a(ns, installed))
Run_18c04558 == Execute("18c04558", Cell_18c04558(ns, installed))
Run_889ab85c == Execute("889ab85c", Cell_889ab85c(ns, installed))
Run_c4a7a0c8 == Execute("c4a7a0c8", Cell_c4a7a0c8(ns, installed))
Run_d645f5a2 == Execute("d645f5a2", Cell_d645f5a2(ns, installed))
Run_67f77afd == Execute("67f77afd", Cell_67f77afd(ns, installed))

\* "Restart kernel and run all cells": the namespace is cleared and the
\* cells are queued top to bottom
RestartRunAll ==
  /\ Idle
  /\ ns' = FreshNs
  /\ last' = NoLast
  /\ cursor' = 1
  /\ UNCHANGED installed

\* a queued cell c of the top-to-bottom run ends as r; an uncaught exception
\* aborts the cells still queued
Queued(c, r) ==
  /\ ns' = r.ns
  /\ last' = Record(c, <<>>, r.exc, r.stdout, r.result)
  /\ cursor' = IF r.exc # NoExc THEN 0 ELSE cursor + 1
  /\ UNCHANGED installed

\* the next queued cell of the top-to-bottom run executes
RunAllStep ==
  /\ cursor \in 1..NCells
  /\ Queued(CellOrder[cursor], RunCell(CellOrder[cursor], ns, installed))

Next ==
  \/ Run_b964aa1a \/ Run_6a837bf0 \/ Run_86ab5297 \/ Run_0f974f37
  \/ Run_f9371639 \/ Run_03fdf36a \/ Run_18c04558 \/ Run_889ab85c
  \/ Run_c4a7a0c8 \/ Run_d645f5a2 \/ Run_67f77afd
  \/ RestartRunAll \/ RunAllStep

Spec == Init /\ [][Next]_vars

\* the queue of a top-to-bottom run moves: to the next cell, or to the
\* aborted run. Among the steps of Next these are the steps of RunAllStep,
\* which is enabled whenever a cell is queued.
RunAllMoves ==
  /\ cursor \in 1..NCells
  /\ cursor' \in {0, cursor + 1}

\* a top-to-bottom run executes its queued cells without waiting for the
\* user: the next queued cell is eventually executed
SpecRun == Spec /\ WF_cursor(RunAllMoves)


-----------------------------------------------------------------------------
(* Direct calls of the notebook's functions on drawn arguments: the        *)
(* initial state holds the arguments, one action per function applies it.  *)

\* all sequences of length n over the set S
SeqsOf(S, n) == [1..n -> S]

\* float entries (thousandths) and int entries the drawn arrays are made of
FloatVals == {1100, 2200}
IntVals == {1, 4}

\* batches of n two-component vectors
Batches ==
  {inputs_6a837bf0} \cup
  UNION { {FloatArr(<<n, 2>>, d) : d \in SeqsOf(FloatVals, 2 * n)} : n \in 1..MaxBatch }

\* one-dimensional int arrays, as x_batched and y_batched of cell 03fdf36a
Vectors ==
  {IntArr(<<3>>, <<1, 2, 3>>), IntArr(<<3>>, <<4, 5, 6>>), IntArr(<<3>>, <<3, 4, 5>>)} \cup
  UNION { {IntArr(<<n>>, d) : d \in SeqsOf(IntVals, n)} : n \in 1..MaxLen }

\* a vector as a row (1,n) and as a column (n,1), as in cell 18c04558
AsRow(v) == Arr(v.dtype, <<1, v.shape[1]>>, v.data)
AsColumn(v) == Arr(v.dtype, <<v.shape[1], 1>>, v.data)

Scalars == {FloatArr(<<>>, <<3000>>), FloatArr(<<>>, <<500>>), IntArr(<<>>, <<2>>)}

\* the ranges of cell d645f5a2, with 1..MaxLen points and with the default number
RangeLens == (1..MaxLen) \cup {LinspaceNum}

CallArgs ==
  { <<x>> : x \in Batches \cup {inputs_b964aa1a} }
  \cup { <<x, y>> : x \in Vectors, y \in Vectors }
  \cup { <<AsRow(x), AsColumn(y)>> : x \in Vectors, y \in Vectors }
  \cup { <<x, y>> : x \in Scalars, y \in Vectors }
  \cup { <<Linspace(-5, 5, m), Linspace(-2, 2, n)>> : m \in RangeLens, n \in RangeLens }

InitCalls ==
  /\ installed = Packages
  /\ ns = FreshNs
  /\ cursor = 0
  /\ \E a \in CallArgs : last = Record("", a, NoExc, <<>>, NoArr)

\* the function named c is applied to the drawn arguments and ends as r
Applied(c, arity, r) ==
  /\ last.cell = ""
  /\ Len(last.args) = arity
  /\ last' = Record(c, last.args, r.exc, <<>>, r.val)
  /\ UNCHANGED <<installed, ns, cursor>>

Call_dense_layer == Applied("dense_layer", 1, Call(Fn("dense_layer"), last.args))
Call_einsum_layer == Applied("einsum_layer", 1, Call(Fn("einsum_layer"), last.args))
Call_transpose_layer == Applied("transpose_layer", 1, Call(Fn("transpose_layer"), last.args))
Call_batched_dense == Applied("batched_dense", 1, Call(batched_dense(Fn("dense_layer")), last.args))
Call_Zip_03fdf36a == Applied("Zip_03fdf36a", 2, Call(Zip_03fdf36a(Fn("func_03fdf36a")), last.args))
Call_NonLeading_18c04558 ==
  Applied("NonLeading_18c04558", 2, Call(NonLeading_18c04558(Fn("func_03fdf36a")), last.args))
Call_NonLeading_889ab85c ==
  Applied("NonLeading_889ab85c", 2, Call(NonLeading_889ab85c(Fn("func_03fdf36a")), last.args))
Call_Broadcast_c4a7a0c8 ==
  Applied("Broadcast_c4a7a0c8", 2, Call(Broadcast_c4a7a0c8(Fn("func_c4a7a0c8")), last.args))
Call_Grid_d645f5a2 ==
  Applied("Grid_d645f5a2", 2, Call(Grid_d645f5a2(Fn("func_d645f5a2")), last.args))
Call_Plot_d645f5a2 ==
  Applied("Plot_d645f5a2", 2, Plot_d645f5a2(last.args[1], last.args[2]))

NextCalls ==
  \/ Call_dense_layer \/ Call_einsum_layer \/ Call_transpose_layer
  \/ Call_batched_dense \/ Call_Zip_03fdf36a \/ Call_NonLeading_18c04558
  \/ Call_NonLeading_889ab85c \/ Call_Broadcast_c4a7a0c8 \/ Call_Grid_d645f5a2
  \/ Call_Plot_d645f5a2

SpecCalls == InitCalls /\ [][NextCalls]_vars


-----------------------------------------------------------------------------
(* The claims.                                                             *)

\* the line cell 6a837bf0 prints: the shape error of W.dot(inputs)
ShapeErrorLine ==
  Line("Incompatible shapes for dot: got {} and {}.",
       <<TupleOf(<<2, 2>>), TupleOf(<<3, 2>>)>>)

\* the 3-by-2 result the notebook records for the batch of cell 6a837bf0
BatchResult == FloatArr(<<3, 2>>, <<900, 1530, 1500, 2630, 2100, 3730>>)

\* sum_j W[i][j]*v[j] + b[i] for a two-component row v, in fixed point
RowOut(v0, v1, i) ==
  MulVal("float", At(W, <<i, 0>>), v0) + MulVal("float", At(W, <<i, 1>>), v1)
  + At(b, <<i>>)

\* C1: for every batch of n two-component vectors, einsum_layer,
\* transpose_layer and jax.vmap(dense_layer) return the same n-by-2 array:
\* out[k][i] = sum_j W[i][j]*batch[k][j] + b[i], and row k is dense_layer of
\* row k alone; for the notebook's batch it is the recorded 3-by-2 result.
C1_LayersAgree ==
  (/\ last.cell \in {"einsum_layer", "transpose_layer", "batched_dense"}
   /\ Rank(last.args[1]) = 2)
  => LET x == last.args[1]
         n == x.shape[1]
     IN  /\ last.exc = NoExc
         /\ last.result.dtype = "float"
         /\ last.result.shape = <<n, 2>>
         /\ \A k \in 0..(n - 1) :
              /\ \A i \in 0..1 :
                   At(last.result, <<k, i>>)
                     = RowOut(At(x, <<k, 0>>), At(x, <<k, 1>>), i)
              /\ Take(last.result, 0, k) = dense_layer(Take(x, 0, k)).val
         /\ (x = inputs_6a837bf0 => last.result = BatchResult)

C1_Witness ==
  /\ last.cell = "einsum_layer"
  /\ last.args = <<inputs_6a837bf0>>
  /\ last.result = BatchResult

\* C2: cell 6a837bf0 calls dense_layer on the 3-by-2 batch; the call ends in
\* the shape error of dot for (2,2) against (3,2) and returns no array: the
\* cell prints that message and displays nothing.
C2_BatchRejected ==
  (last.cell = "6a837bf0" /\ ns.dense_layer # Unbound)
  => /\ ns.inputs = inputs_6a837bf0
     /\ last.exc = NoExc
     /\ last.stdout = <<ShapeErrorLine>>
     /\ last.result = NoArr

C2_Witness ==
  /\ last.cell = "6a837bf0"
  /\ last.stdout = <<ShapeErrorLine>>

\* C3 as stated: dense_layer on every array of shape (n,2), n >= 1, raises a
\* shape error instead of returning a value.
C3_Original ==
  (last.cell = "dense_layer" /\ Rank(last.args[1]) = 2)
  => last.exc.type = "TypeError" /\ last.result = NoArr

\* C3 amended: dense_layer on an array of shape (n,2) raises the shape error
\* of dot when n # 2; for n = 2 the shapes align and it returns the 2-by-2
\* array out[i][k] = sum_j W[i][j]*x[j][k] + b[k].
C3_Amended ==
  (last.cell = "dense_layer" /\ Rank(last.args[1]) = 2)
  => LET x == last.args[1]
         n == x.shape[1]
     IN  IF n # 2
         THEN /\ last.exc = Exc("TypeError", "Incompatible shapes for dot: got {} and {}.",
                                <<TupleOf(<<2, 2>>), TupleOf(<<n, 2>>)>>)
              /\ last.result = NoArr
         ELSE /\ last.exc = NoExc
              /\ last.result.shape = <<2, 2>>
              /\ \A i \in 0..1, k \in 0..1 :
                   At(last.result, <<i, k>>)
                     = MulVal("float", At(W, <<i, 0>>), At(x, <<0, k>>))
                       + MulVal("float", At(W, <<i, 1>>), At(x, <<1, k>>))
                       + At(b, <<k>>)

C3_Witness ==
  /\ last.cell = "dense_layer"
  /\ last.args[1].shape = <<2, 2>>
  /\ last.exc = NoExc
  /\ last.result.shape = <<2, 2>>

\* C4: jax.vmap(func, in_axes=(0,0)) with func(x,y) = x+y on one-dimensional
\* x and y of equal length n returns length n with out[i] = x[i] + y[i];
\* for [1,2,3] and [4,5,6] it is [5,7,9].
C4_Zip ==
  (/\ last.cell = "Zip_03fdf36a"
   /\ Rank(last.args[1]) = 1 /\ Rank(last.args[2]) = 1
   /\ last.args[1].shape = last.args[2].shape)
  => LET x == last.args[1]
         y == last.args[2]
     IN  /\ last.exc = NoExc
         /\ last.result.shape = x.shape
         /\ \A i \in 1..x.shape[1] : last.result.data[i] = x.data[i] + y.data[i]
         /\ (x = IntArr(<<3>>, <<1, 2, 3>>) /\ y = IntArr(<<3>>, <<4, 5, 6>>)
               => last.result = IntArr(<<3>>, <<5, 7, 9>>))

C4_Witness ==
  /\ last.cell = "Zip_03fdf36a"
  /\ last.args = <<IntArr(<<3>>, <<1, 2, 3>>), IntArr(<<3>>, <<4, 5, 6>>)>>
  /\ last.result = IntArr(<<3>>, <<5, 7, 9>>)


\* x_batched and y_batched of cell 18c04558
Row123 == IntArr(<<1, 3>>, <<1, 2, 3>>)
Column456 == IntArr(<<3, 1>>, <<4, 5, 6>>)

\* C5: with x of shape (1,n) batched on axis 1 and y of shape (n,1) batched
\* on axis 0, the auto-batched addition with out_axes=1 returns shape (1,n)
\* and with out_axes=0 shape (n,1), the batch dimension at the requested
\* axis, with the values x[0][i] + y[i][0]; for [[1,2,3]] and [[4],[5],[6]]
\* these are [[5,7,9]] and [[5],[7],[9]].
C5_NonLeading ==
  (/\ last.cell \in {"NonLeading_18c04558", "NonLeading_889ab85c"}
   /\ Rank(last.args[1]) = 2 /\ Rank(last.args[2]) = 2
   /\ last.args[1].shape[1] = 1 /\ last.args[2].shape[2] = 1
   /\ last.args[1].shape[2] = last.args[2].shape[1])
  => LET x == last.args[1]
         y == last.args[2]
         n == x.shape[2]
         oa == IF last.cell = "NonLeading_18c04558" THEN 1 ELSE 0
     IN  /\ last.exc = NoExc
         /\ last.result.shape = (IF oa = 1 THEN <<1, n>> ELSE <<n, 1>>)
         /\ last.result.shape[oa + 1] = n
         /\ \A i \in 0..(n - 1) :
              At(last.result, IF oa = 1 THEN <<0, i>> ELSE <<i, 0>>)
                = At(x, <<0, i>>) + At(y, <<i, 0>>)
         /\ (x = Row123 /\ y = Column456
               => last.result = IntArr(IF oa = 1 THEN <<1, 3>> ELSE <<3, 1>>, <<5, 7, 9>>))

C5_Witness ==
  /\ last.cell = "NonLeading_18c04558"
  /\ last.args = <<Row123, Column456>>
  /\ last.result = IntArr(<<1, 3>>, <<5, 7, 9>>)

\* C6: jax.vmap(func, in_axes=(None,0)) with func(x,y) = x*y reuses the
\* unbatched scalar x for every batch element: for y of length n the result
\* has length n and out[i] = x * y[i]; for 3.0 and [3,4,5] it is [9,12,15].
C6_Broadcast ==
  (/\ last.cell = "Broadcast_c4a7a0c8"
   /\ Rank(last.args[1]) = 0 /\ Rank(last.args[2]) = 1)
  => LET x == last.args[1]
         y == last.args[2]
         dt == Promote(x.dtype, y.dtype)
     IN  /\ last.exc = NoExc
         /\ last.result.dtype = dt
         /\ last.result.shape = y.shape
         /\ \A i \in 0..(y.shape[1] - 1) :
              At(last.result, <<i>>)
                = MulVal(dt, ValAs(x, <<>>, dt), ValAs(y, <<i>>, dt))
         /\ (x = FloatArr(<<>>, <<3000>>) /\ y = IntArr(<<3>>, <<3, 4, 5>>)
               => last.result = FloatArr(<<3>>, <<9000, 12000, 15000>>))

C6_Witness ==
  /\ last.cell = "Broadcast_c4a7a0c8"
  /\ last.args = <<FloatArr(<<>>, <<3000>>), IntArr(<<3>>, <<3, 4, 5>>)>>
  /\ last.result = FloatArr(<<3>>, <<9000, 12000, 15000>>)

\* the scalar a[i] of a one-dimensional array
Scalar(a, i) == Arr(a.dtype, <<>>, <<At(a, <<i>>)>>)

\* C7: the doubly nested vmap evaluates func on every pair: for x_range of
\* length m and y_range of length n the result has shape (m,n) with
\* out[i][j] = func(x_range[i], y_range[j]); with the two default 50-point
\* ranges it is a 50-by-50 grid.
C7_CartesianProduct ==
  (/\ last.cell = "Grid_d645f5a2"
   /\ Rank(last.args[1]) = 1 /\ Rank(last.args[2]) = 1)
  => LET x == last.args[1]
         y == last.args[2]
         m == x.shape[1]
         n == y.shape[1]
     IN  /\ last.exc = NoExc
         /\ last.result.shape = <<m, n>>
         /\ \A i \in 0..(m - 1), j \in 0..(n - 1) :
              At(last.result, <<i, j>>)
                = func_d645f5a2(Scalar(x, i), Scalar(y, j)).val.data[1]
         /\ (x = Linspace(-5, 5, LinspaceNum) /\ y = Linspace(-2, 2, LinspaceNum)
               => last.result.shape = <<50, 50>>)

C7_Witness ==
  /\ last.cell = "Grid_d645f5a2"
  /\ last.args = <<Linspace(-5, 5, LinspaceNum), Linspace(-2, 2, LinspaceNum)>>
  /\ last.result.shape = <<50, 50>>

\* the line cell b964aa1a prints: [1.1 1.2] -> [0.9 1.53]
DenseLine ==
  Line("{} -> {}", <<FloatArr(<<2>>, <<1100, 1200>>), FloatArr(<<2>>, <<900, 1530>>)>>)

\* C8: for W=[[0.2,0.4],[0.9,0.2]] and b=[0.2,0.3], dense_layer applied to
\* the single vector x=[1.1,1.2] returns the two-component [0.900, 1.530]:
\* cell b964aa1a, whenever it completes, prints "[1.1 1.2] -> [0.9 1.53]".
C8_DenseValue ==
  /\ W = FloatArr(<<2, 2>>, <<200, 400, 900, 200>>)
  /\ b = FloatArr(<<2>>, <<200, 300>>)
  /\ (last.cell = "b964aa1a" /\ last.exc = NoExc
        => /\ last.stdout = <<DenseLine>>
           /\ ns.inputs = FloatArr(<<2>>, <<1100, 1200>>)
           /\ \A i \in 0..1 :
                At(last.stdout[1].args[2], <<i>>)
                  = RowOut(At(ns.inputs, <<0>>), At(ns.inputs, <<1>>), i))

C8_Witness ==
  /\ last.cell = "b964aa1a"
  /\ last.stdout = <<DenseLine>>


\* what an execution left: how it ended, what it printed and displayed
Outcome(l) == [exc |-> l.exc, stdout |-> l.stdout, result |-> l.result]

Printed(lines) == [exc |-> NoExc, stdout |-> lines, result |-> NoArr]
Displayed(a) == [exc |-> NoExc, stdout |-> <<>>, result |-> a]

\* the plot of cell d645f5a2: the points (x_i, y_j) with the values
\* sin(x_i)*y_j, for i, j over the kernel's ranges
PlotResult ==
  LET N  == NumPoints
      xs == [k \in 1..(N * N) |-> Linspace(-5, 5, N).data[((k - 1) \div N) + 1]]
      ys == [k \in 1..(N * N) |-> Linspace(-2, 2, N).data[((k - 1) % N) + 1]]
      zs == [k \in 1..(N * N) |-> MulVal("float", SinMilli(xs[k]), ys[k])]
  IN  Arr("QuadContourSet", <<3, N, N>>, xs \o ys \o zs)

\* the output of each code cell in a top-to-bottom run, as the notebook
\* records it
Recorded(c) ==
  CASE c = "b964aa1a" -> Printed(<<DenseLine>>)
    [] c = "6a837bf0" -> Printed(<<ShapeErrorLine>>)
    [] c \in {"86ab5297", "0f974f37", "f9371639"} -> Displayed(BatchResult)
    [] c = "03fdf36a" -> Displayed(IntArr(<<3>>, <<5, 7, 9>>))
    [] c = "18c04558" ->
         Printed(<<Line("{}", <<IntArr(<<1, 3>>, <<5, 7, 9>>)>>),
                   Line("{}", <<TupleOf(<<1, 3>>)>>)>>)
    [] c = "889ab85c" ->
         Printed(<<Line("{}", <<IntArr(<<3, 1>>, <<5, 7, 9>>)>>),
                   Line("{}", <<TupleOf(<<3, 1>>)>>)>>)
    [] c = "c4a7a0c8" -> Displayed(FloatArr(<<3>>, <<9000, 12000, 15000>>))
    [] c = "d645f5a2" -> Displayed(PlotResult)
    [] c = "67f77afd" -> Printed(<<>>)

\* the imports of cell b964aa1a have all succeeded
Imported == ns.jax /\ ns.jnp /\ ns.plt

\* C9 as stated: after the imports, every code cell, whatever cells ran
\* before it, runs without an unbound-name error and produces the output it
\* has in top-to-bottom order.
C9_Original ==
  (Imported /\ last.cell # "")
  => /\ last.exc.type # "NameError"
     /\ Outcome(last) = Recorded(last.cell)

\* the cells that read no name bound by another cell, but for the imports
\* and dense_layer of cell b964aa1a
SelfContained == {"b964aa1a", "6a837bf0", "03fdf36a", "c4a7a0c8", "d645f5a2", "67f77afd"}

\* C9 amended: after the imports, the cells b964aa1a, 6a837bf0, 03fdf36a,
\* c4a7a0c8, d645f5a2 and 67f77afd produce their top-to-bottom output
\* whatever cells ran before; 86ab5297, 0f974f37 and f9371639 read inputs
\* and produce it when inputs is the batch of cell 6a837bf0; 18c04558 reads
\* func and 889ab85c reads func, x_batched and y_batched, and they produce
\* it when these are bound as cells 03fdf36a and 18c04558 bind them; an
\* unbound-name error happens in the cells 18c04558 and 889ab85c only.
C9_Amended ==
  (Imported /\ last.cell # "")
  => /\ last.cell \in SelfContained => Outcome(last) = Recorded(last.cell)
     /\ (last.cell \in {"86ab5297", "0f974f37", "f9371639"}
         /\ ns.inputs = inputs_6a837bf0)
          => Outcome(last) = Recorded(last.cell)
     /\ (last.cell = "18c04558" /\ ns.func = Fn("func_03fdf36a"))
          => Outcome(last) = Recorded(last.cell)
     /\ (last.cell = "889ab85c" /\ ns.func = Fn("func_03fdf36a")
         /\ ns.x_batched = Row123 /\ ns.y_batched = Column456)
          => Outcome(last) = Recorded(last.cell)
     /\ last.exc.type = "NameError" => last.cell \in {"18c04558", "889ab85c"}

\* cell 6a837bf0 ran after another cell rebound inputs and func
C9_Witness ==
  /\ Imported
  /\ last.cell = "03fdf36a"
  /\ ns.inputs = inputs_6a837bf0
  /\ ns.batched_dense # Unbound
  /\ Outcome(last) = Recorded("03fdf36a")

\* C10: the shape error is caught narrowly at the call dense_layer(inputs)
\* of cell 6a837bf0: a TypeError raised there is caught, its message is
\* printed and the cell completes, so that a top-to-bottom run continues
\* with the next cell; an exception of another type raised there (the
\* NameError of an unbound dense_layer) is not caught and ends the cell.
C10_NarrowCatch ==
  /\ [](last.cell = "6a837bf0" /\ ns.jnp
          => IF ns.dense_layer = Unbound
             THEN last.exc = NameError("dense_layer") /\ last.stdout = <<>>
             ELSE last.exc = NoExc /\ last.stdout = <<ShapeErrorLine>>)
  /\ [][cursor = 2 => /\ last'.cell = "6a837bf0"
                      /\ last'.exc = NoExc
                      /\ last'.stdout = <<ShapeErrorLine>>
                      /\ cursor' = 3]_vars

C10_Witness ==
  /\ cursor = 3
  /\ last.cell = "6a837bf0"
  /\ last.exc = NoExc
  /\ last.stdout = <<ShapeErrorLine>>


\* C11: jax.vmap leaves the function it is given unmodified: executing cell
\* f9371639 does not change the binding of dense_layer, and whenever
\* batched_dense is bound, dense_layer is still the function of cell
\* b964aa1a: it returns W x + b = [0.9, 1.53] for the vector [1.1, 1.2] and
\* fails with the dot shape error on the 3-by-2 batch, while batched_dense
\* returns the row-wise result for the batch.
C11_VmapLeavesOriginal ==
  /\ [](ns.batched_dense # Unbound
          => /\ ns.dense_layer = Fn("dense_layer")
             /\ Call(ns.dense_layer, <<inputs_b964aa1a>>)
                  = Ok(FloatArr(<<2>>, <<900, 1530>>))
             /\ LET r == Call(ns.dense_layer, <<inputs_6a837bf0>>)
                IN  /\ Failed(r)
                    /\ r.exc.type = "TypeError"
                    /\ Line(r.exc.text, r.exc.args) = ShapeErrorLine
             /\ Call(ns.batched_dense, <<inputs_6a837bf0>>) = Ok(BatchResult))
  /\ [][last'.cell = "f9371639" => ns'.dense_layer = ns.dense_layer]_vars

\* cell f9371639 has bound batched_dense and applied it to the batch
C11_Witness ==
  /\ last.cell = "f9371639"
  /\ last.exc = NoExc
  /\ last.result = BatchResult
  /\ ns.batched_dense = Vmap(Fn("dense_layer"), <<0>>, 0)
  /\ ns.dense_layer = Fn("dense_layer")


\* C12: the grid of the nested vmap is laid out as the coordinates of
\* jnp.meshgrid(x_range, y_range, indexing = 'ij'): for x_range of length m
\* and y_range of length n, grid[0], grid[1] and out have the shape (m,n),
\* grid[0][i][j] = x_range[i], grid[1][i][j] = y_range[j], and contourf is
\* given, at every index (i,j), the point (x_range[i], y_range[j]) with the
\* value func(x_range[i], y_range[j]).
C12_GridMatchesMeshgrid ==
  (/\ last.cell = "Plot_d645f5a2"
   /\ Rank(last.args[1]) = 1 /\ Rank(last.args[2]) = 1)
  => LET x == last.args[1]
         y == last.args[2]
         m == x.shape[1]
         n == y.shape[1]
         grid == MeshgridIJ(x, y)
     IN  /\ grid[1].shape = <<m, n>>
         /\ grid[2].shape = <<m, n>>
         /\ last.exc = NoExc
         /\ last.result.dtype = "QuadContourSet"
         /\ last.result.shape = <<3, m, n>>
         /\ \A i \in 0..(m - 1), j \in 0..(n - 1) :
              /\ At(last.result, <<0, i, j>>) = At(x, <<i>>)
              /\ At(last.result, <<1, i, j>>) = At(y, <<j>>)
              /\ At(last.result, <<2, i, j>>)
                   = func_d645f5a2(Scalar(x, i), Scalar(y, j)).val.data[1]

\* the plot of ranges of different lengths, where a transposed layout has
\* another shape
C12_Witness ==
  /\ last.cell = "Plot_d645f5a2"
  /\ last.exc = NoExc
  /\ last.args[1].shape = <<3>>
  /\ last.args[2].shape = <<2>>
  /\ last.result.shape = <<3, 3, 2>>


\* the cell a top-to-bottom run executes next
NextCell == IF cursor \in 1..NCells THEN CellOrder[cursor] ELSE ""

\* C13: in a top-to-bottom run from a fresh kernel, with the imported
\* packages installed, every cell finds the names it reads bound as it
\* expects: the imports and dense_layer from the second cell on, inputs the
\* 3-by-2 batch in cells 86ab5297, 0f974f37 and f9371639, func the addition
\* in cells 18c04558 and 889ab85c, x_batched and y_batched of shapes (1,3)
\* and (3,1) in cell 889ab85c; no cell ends in an exception, and the run
\* reaches the end of the last cell.
C13_RunCompletes ==
  /\ []((installed = Packages /\ cursor \in 1..(NCells + 1))
          => /\ cursor > 1
                  => /\ last.cell = CellOrder[cursor - 1]
                     /\ last.exc = NoExc
                     /\ Imported
                     /\ ns.dense_layer = Fn("dense_layer")
             /\ NextCell \in {"86ab5297", "0f974f37", "f9371639"}
                  => ns.inputs = inputs_6a837bf0
             /\ NextCell \in {"18c04558", "889ab85c"}
                  => ns.func = Fn("func_03fdf36a")
             /\ NextCell = "889ab85c"
                  => /\ ns.x_batched = Row123 /\ ns.x_batched.shape = <<1, 3>>
                     /\ ns.y_batched = Column456 /\ ns.y_batched.shape = <<3, 1>>)
  /\ (installed = Packages /\ cursor = 1)
       ~> (cursor = NCells + 1 /\ last.cell = "67f77afd" /\ last.exc = NoExc)

\* a top-to-bottom run has executed its last cell
C13_Witness ==
  /\ installed = Packages
  /\ cursor = NCells + 1
  /\ last.cell = "67f77afd"
  /\ last.exc = NoExc
  /\ ns.inputs = inputs_6a837bf0
  /\ ns.func = Fn("func_d645f5a2")


\* the functions the cells bind to the name func
Funcs == {Fn("func_03fdf36a"), Fn("func_c4a7a0c8"), Fn("func_d645f5a2")}

\* C14: out_axes only places the batch axis: for each func of the notebook
\* and the same arguments, jax.vmap(func, in_axes=(1,0), out_axes=1) and
\* jax.vmap(func, in_axes=(1,0), out_axes=0) fail alike or both return, and
\* then the first result is the transpose of the second:
\* out1[0][i] = out2[i][0] for every batch index i, with the shapes (1,n)
\* and (n,1). The results recorded for the addition are these results.
C14_OutAxesTransposes ==
  last.cell \in {"NonLeading_18c04558", "NonLeading_889ab85c"}
  => /\ \A f \in Funcs :
          LET r1 == Call(NonLeading_18c04558(f), last.args)
              r2 == Call(NonLeading_889ab85c(f), last.args)
          IN  /\ Failed(r1) = Failed(r2)
              /\ ~Failed(r1)
                   => LET out1 == r1.val
                          out2 == r2.val
                          n == out2.shape[1]
                      IN  /\ out1.shape = <<1, n>>
                          /\ out2.shape = <<n, 1>>
                          /\ out1.dtype = out2.dtype
                          /\ \A i \in 0..(n - 1) :
                               At(out1, <<0, i>>) = At(out2, <<i, 0>>)
                          /\ out1 = Transpose(out2)
     /\ last.cell = "NonLeading_18c04558"
          => last.result = Call(NonLeading_18c04558(Fn("func_03fdf36a")), last.args).val
     /\ last.cell = "NonLeading_889ab85c"
          => last.result = Call(NonLeading_889ab85c(Fn("func_03fdf36a")), last.args).val

\* out2 of the notebook's operands, the transpose of out1
C14_Witness ==
  /\ last.cell = "NonLeading_889ab85c"
  /\ last.args = <<Row123, Column456>>
  /\ last.result = IntArr(<<3, 1>>, <<5, 7, 9>>)
  /\ Transpose(last.result) = IntArr(<<1, 3>>, <<5, 7, 9>>)


\* the cells that call a layer on the kernel's inputs
LayerCells == {"86ab5297", "0f974f37", "f9371639"}

\* C15: the layer calls change neither their argument nor a kernel binding:
\* an execution of cell 86ab5297, 0f974f37 or f9371639 leaves inputs, and
\* every other name but batched_dense (bound by cell f9371639), as it was;
\* so once inputs is the 3-by-2 batch of cell 6a837bf0 it is still that
\* batch after these cells have run in any order and any number of times,
\* and every one of their calls that returns gives the same row-wise
\* result, which is every call once the imports of the first cell are done.
C15_LayerCallsFrame ==
  [][last'.cell \in LayerCells
       => /\ ns'.inputs = ns.inputs
          /\ ns' = [ns EXCEPT !.batched_dense = ns'.batched_dense]
          /\ last'.cell # "f9371639" => ns'.batched_dense = ns.batched_dense
          /\ ns.inputs = inputs_6a837bf0
               => /\ ns'.inputs = inputs_6a837bf0
                  /\ last'.exc = NoExc => last'.result = BatchResult
                  /\ Imported => last'.exc = NoExc]_vars

\* transpose_layer(inputs) after batched_dense(inputs), both on the batch
C15_Witness ==
  /\ last.cell = "0f974f37"
  /\ last.exc = NoExc
  /\ last.result = BatchResult
  /\ ns.inputs = inputs_6a837bf0
  /\ ns.batched_dense # Unbound


====
